---- MODULE Spec2Model ----
(***************************************************************************)
(* Model of gcp-backup's "run" command (src/cmd/run.go): path expansion,   *)
(* fingerprinting, planning against the bucket, and the upload loop.       *)
(*                                                                         *)
(* Paths are sequences of path components: "home/d/x" is <<"home","d","x">>*)
(* path.Join is concatenation of components (the "/" element adds none),   *)
(* filepath.Rel strips the parent's components.                            *)
(***************************************************************************)
EXTENDS Naturals, Sequences, FiniteSets, TLC

VARIABLES
    \* ---- the environment: local file system and bucket
    xType,          \* type of the directory entry home/d/x
    unreadableDirs, \* directories on which os.ReadDir fails
    content,        \* content of every file-like entry
    remote,         \* bucket: object path -> checksum stored by the store
    \* ---- configuration
    paths,          \* viper "paths"
    dryRun,         \* runBackupOpts.dryRun
    \* ---- runBackup's locals and position
    pc,
    localFilePaths,
    checksums,
    todo,           \* keys of checksums the range loop has not visited yet
    requiredPaths,
    ignoredPaths,
    idx,            \* position of the upload loop in requiredPaths
    output,         \* lines printed
    err,            \* the error runBackup returns
    \* ---- history, for stating the properties
    runs,
    edits,
    remote0,        \* bucket at the start of the run
    lookups,        \* remote lookups made by the run
    uploads,        \* upload attempts made by the run
    fpFailing,      \* files whose checksum could not be computed in the run
    snapshotValid,  \* the last run that uploaded anything ended without error
    snapshot,       \* content of the local files when that run ended
    prevPlan        \* the plan the previous run computed, if it was a dry run

vars == <<xType, unreadableDirs, content, remote, paths, dryRun, pc,
          localFilePaths, checksums, todo, requiredPaths, ignoredPaths, idx,
          output, err, runs, edits, remote0, lookups, uploads, fpFailing,
          snapshotValid, snapshot, prevPlan>>

\* ---------------------------------------------------------------- bounds
MaxSpecs == 2       \* length of the configured path list
MaxRuns == 2        \* invocations of the command
MaxEdits == 1       \* edits of local files between invocations
MaxContent == 2     \* file contents are 0..MaxContent

\* ------------------------------------------------------------- utilities
Range(s) == {s[i] : i \in 1..Len(s)}

RECURSIVE SeqFilter(_, _)
SeqFilter(s, keep) ==
    IF s = <<>> THEN <<>>
    ELSE IF Head(s) \in keep THEN <<Head(s)>> \o SeqFilter(Tail(s), keep)
    ELSE SeqFilter(Tail(s), keep)

SeqsUpTo(S, n) == UNION {[1..k -> S] : k \in 1..n}

\* ------------------------------------------------- configuration and paths
HomeDir == <<"home">>
MachineAlias == <<"machines", "mac14">>

\* path.Join: the elements joined and cleaned
PathJoin(a, b) == a \o b

\* filepath.Rel for a target below the base
IsBelow(base, target) ==
    /\ Len(target) >= Len(base)
    /\ SubSeq(target, 1, Len(base)) = base
Rel(base, target) == SubSeq(target, Len(base) + 1, Len(target))

\* path specs naming a file, a directory and a file inside that directory;
\* and all path specs: those, a directory holding special entries and a
\* subdirectory, and two paths that do not exist
ValidSpecs == { <<"d", "b.txt">>, <<"d", "sub">>, <<"d", "sub", "c.txt">> }
PathSpecs == ValidSpecs \cup { <<"d">>, <<"nope1">>, <<"nope2">> }

\* ------------------------------------------------------- local file system
DirD == <<"home", "d">>
FileB == <<"home", "d", "b.txt">>
LinkL == <<"home", "d", "l">>
SockS == <<"home", "d", "s">>
DirSub == <<"home", "d", "sub">>
FileC == <<"home", "d", "sub", "c.txt">>
EntryX == <<"home", "d", "x">>

XTypes == {"regular", "namedpipe", "device"}
Files == {FileB, FileC, EntryX}
Contents == 0..MaxContent

\* fs.DirEntry.Type() / os.Stat of a path
TypeOf(p) ==
    CASE p = HomeDir -> "dir"
      [] p = DirD -> "dir"
      [] p = FileB -> "regular"
      [] p = LinkL -> "symlink"
      [] p = SockS -> "socket"
      [] p = DirSub -> "dir"
      [] p = FileC -> "regular"
      [] p = EntryX -> xType
      [] OTHER -> "absent"

\* os.ReadDir: the entries' names, sorted by file name
ReadDir(p) ==
    CASE p = HomeDir -> <<"d">>
      [] p = DirD -> <<"b.txt", "l", "s", "sub", "x">>
      [] p = DirSub -> <<"c.txt">>
      [] OTHER -> <<>>

IsDirectoryExist(p) == TypeOf(p) = "dir"
IsFileExist(p) == TypeOf(p) \notin {"absent", "dir"}

\* iohelper.GenerateCRC32Checksum: a fixed function of the content that is
\* not injective (contents 0 and MaxContent collide)
GenerateCRC32Checksum(c) == c % MaxContent

NoErr == [kind |-> "nil", path |-> <<>>]

\* ----------------------------------------------------------- Path Expander
RECURSIVE ExtractFilePaths(_)
RECURSIVE ExtractEntries(_, _, _, _)

\* the loop over the directory's entries (the switch on file.Type())
ExtractEntries(localPath, files, i, filePaths) ==
    IF i > Len(files) THEN [paths |-> filePaths, err |-> NoErr]
    ELSE LET child == PathJoin(localPath, <<files[i]>>)
             t == TypeOf(child)
         IN  CASE t = "symlink" -> ExtractEntries(localPath, files, i + 1, filePaths)
               [] t = "socket" -> ExtractEntries(localPath, files, i + 1, filePaths)
               [] t = "dir" ->
                    LET filesInDir == ExtractFilePaths(child)
                    IN  IF filesInDir.err # NoErr
                        THEN [paths |-> <<>>, err |-> filesInDir.err]
                        ELSE ExtractEntries(localPath, files, i + 1,
                                            filePaths \o filesInDir.paths)
               [] OTHER -> ExtractEntries(localPath, files, i + 1,
                                          Append(filePaths, child))

ExtractFilePaths(localPath) ==
    IF IsDirectoryExist(localPath)
    THEN IF localPath \in unreadableDirs
         THEN [paths |-> <<>>, err |-> [kind |-> "readdir", path |-> localPath]]
         ELSE ExtractEntries(localPath, ReadDir(localPath), 1, <<>>)
    ELSE IF IsFileExist(localPath)
         THEN [paths |-> <<localPath>>, err |-> NoErr]
         ELSE [paths |-> <<>>, err |-> [kind |-> "notexist", path |-> localPath]]

\* the loop of ExtractFilePathsFromList: every spec is tried, failures are
\* appended to errs, successes to filePaths
RECURSIVE ExtractLoop(_, _, _, _, _)
ExtractLoop(parentPath, relativePaths, i, filePaths, errs) ==
    IF i > Len(relativePaths) THEN [filePaths |-> filePaths, errs |-> errs]
    ELSE LET p == relativePaths[i]
             r == ExtractFilePaths(PathJoin(parentPath, p))
         IN  IF r.err # NoErr
             THEN ExtractLoop(parentPath, relativePaths, i + 1, filePaths,
                              Append(errs, [spec |-> p, path |-> r.err.path,
                                            cause |-> r.err.kind]))
             ELSE ExtractLoop(parentPath, relativePaths, i + 1,
                              filePaths \o r.paths, errs)

\* faulty variant: stops at the first spec that fails
RECURSIVE ExtractLoopFirstError(_, _, _, _)
ExtractLoopFirstError(parentPath, relativePaths, i, filePaths) ==
    IF i > Len(relativePaths) THEN [filePaths |-> filePaths, errs |-> <<>>]
    ELSE LET p == relativePaths[i]
             r == ExtractFilePaths(PathJoin(parentPath, p))
         IN  IF r.err # NoErr
             THEN [filePaths |-> <<>>,
                   errs |-> <<[spec |-> p, path |-> r.err.path, cause |-> r.err.kind]>>]
             ELSE ExtractLoopFirstError(parentPath, relativePaths, i + 1,
                                        filePaths \o r.paths)
ExtractFilePathsFromList_FailFast(parentPath, relativePaths) ==
    ExtractLoopFirstError(parentPath, relativePaths, 1, <<>>)

\* faulty variant: hands back the files found next to the joined error
ExtractFilePathsFromList_KeepPaths(parentPath, relativePaths) ==
    ExtractLoop(parentPath, relativePaths, 1, <<>>, <<>>)

\* filePaths is nil (no element) whenever errs is not empty
ExtractFilePathsFromList(parentPath, relativePaths) ==
    LET r == ExtractLoop(parentPath, relativePaths, 1, <<>>, <<>>)
    IN  IF Len(r.errs) > 0
        THEN [filePaths |-> <<>>, errs |-> r.errs]
        ELSE [filePaths |-> r.filePaths, errs |-> <<>>]

\* ------------------------------------------------------------ Fingerprinter
\* failing: the files iohelper.GenerateCRC32Checksum cannot read in this call
\* faulty variant: returns the partial map next to the error
GetChecksums_Partial(localPaths, failing) ==
    LET ok == Range(localPaths) \ failing
    IN  [checksums |-> [p \in ok |-> GenerateCRC32Checksum(content[p])],
         errs |-> [i \in 1..Len(SeqFilter(localPaths, failing)) |->
                     [spec |-> <<>>, path |-> SeqFilter(localPaths, failing)[i],
                      cause |-> "checksum"]]]

GetChecksums(localPaths, failing) ==
    LET ok == Range(localPaths) \ failing
        bad == SeqFilter(localPaths, failing)
        errs == [i \in 1..Len(bad) |->
                   [spec |-> <<>>, path |-> bad[i], cause |-> "checksum"]]
    IN  IF Len(errs) > 0
        THEN [checksums |-> <<>>, errs |-> errs]
        ELSE [checksums |-> [p \in ok |-> GenerateCRC32Checksum(content[p])],
              errs |-> <<>>]

\* ------------------------------------------------------ Remote State Oracle
\* googleapi.IsBucketObjectExist: not-found is (false, nil); outcome "err" is
\* any other failure of the store
IsBucketObjectExist(objectPath, outcome) ==
    IF outcome = "err" THEN "err"
    ELSE IF objectPath \in DOMAIN remote THEN "true" ELSE "false"

\* googleapi.GetBucketObjectChecksum: the store's own CRC32C of the object
GetBucketObjectChecksum(objectPath, outcome) ==
    IF outcome = "err" \/ objectPath \notin DOMAIN remote
    THEN [err |-> TRUE, crc |-> 0]
    ELSE [err |-> FALSE, crc |-> remote[objectPath]]

\* ----------------------------------------------------------- Backup Planner
\* objectPath := path.Join(machineAlias, "/", relativePath) in the planner
PlanObjectPath(machineAlias, relativePath) ==
    PathJoin(PathJoin(machineAlias, <<>>), relativePath)

\* faulty variant: an existing object with a different checksum is not required
IsBackupRequired_OnlyAbsent(objectPath, localChecksum, existOutcome, crcOutcome) ==
    LET exist == IsBucketObjectExist(objectPath, existOutcome)
    IN  IF exist = "err"
        THEN [required |-> FALSE, err |-> "exists",
              calls |-> <<[op |-> "exists", key |-> objectPath, res |-> "err"]>>]
        ELSE [required |-> exist = "false", err |-> "nil",
              calls |-> <<[op |-> "exists", key |-> objectPath, res |-> exist]>>]

\* faulty variant: a failed existence lookup is taken as "object absent"
IsBackupRequired_ErrIsAbsent(objectPath, localChecksum, existOutcome, crcOutcome) ==
    LET exist == IsBucketObjectExist(objectPath, existOutcome)
        c1 == <<[op |-> "exists", key |-> objectPath, res |-> exist]>>
    IN  IF exist # "true"
        THEN [required |-> TRUE, err |-> "nil", calls |-> c1]
        ELSE LET rc == GetBucketObjectChecksum(objectPath, crcOutcome)
             IN  IF rc.err
                 THEN [required |-> FALSE, err |-> "checksum",
                       calls |-> Append(c1, [op |-> "checksum", key |-> objectPath,
                                             res |-> "err"])]
                 ELSE [required |-> localChecksum # rc.crc, err |-> "nil",
                       calls |-> Append(c1, [op |-> "checksum", key |-> objectPath,
                                             res |-> "ok"])]

\* calls: the lookups the function makes, with what the store answered
IsBackupRequired(objectPath, localChecksum, existOutcome, crcOutcome) ==
    LET exist == IsBucketObjectExist(objectPath, existOutcome)
        c1 == <<[op |-> "exists", key |-> objectPath, res |-> exist]>>
    IN  IF exist = "err"
        THEN [required |-> FALSE, err |-> "exists", calls |-> c1]
        ELSE IF exist = "false"
        THEN [required |-> TRUE, err |-> "nil", calls |-> c1]
        ELSE LET rc == GetBucketObjectChecksum(objectPath, crcOutcome)
             IN  IF rc.err
                 THEN [required |-> FALSE, err |-> "checksum",
                       calls |-> Append(c1, [op |-> "checksum", key |-> objectPath,
                                             res |-> "err"])]
                 ELSE [required |-> localChecksum # rc.crc, err |-> "nil",
                       calls |-> Append(c1, [op |-> "checksum", key |-> objectPath,
                                             res |-> "ok"])]

\* faulty variant: a required file is appended to both lists
Classify_Both(required, localPath, req, ign) ==
    IF required
    THEN [requiredPaths |-> Append(req, localPath), ignoredPaths |-> Append(ign, localPath)]
    ELSE [requiredPaths |-> req, ignoredPaths |-> Append(ign, localPath)]

\* the if/else that appends localPath to one of the two lists
Classify(required, localPath, req, ign) ==
    IF required
    THEN [requiredPaths |-> Append(req, localPath), ignoredPaths |-> ign]
    ELSE [requiredPaths |-> req, ignoredPaths |-> Append(ign, localPath)]

\* ------------------------------------------------------------------ Uploader
\* faulty variant: the object is written without the machine alias
UploadObjectPath_NoAlias(machineAlias, relativePath) == relativePath

\* objectPath := path.Join(machineAlias, "/", relativePath) in the uploader
UploadObjectPath(machineAlias, relativePath) ==
    PathJoin(PathJoin(machineAlias, <<>>), relativePath)

\* the bucket after the object is finalized: the store records the CRC32C of
\* the bytes written
WriteObject(objectPath, localPath) ==
    [k \in DOMAIN remote \cup {objectPath} |->
        IF k = objectPath THEN GenerateCRC32Checksum(content[localPath])
        ELSE remote[k]]

\* faulty variant: the result of writer.Close() is dropped
CopyFileToBucket_IgnoreClose(machineAlias, relativePath, localPath, outcome, committed) ==
    LET objectPath == UploadObjectPath(machineAlias, relativePath)
    IN  CASE outcome = "read" -> [err |-> "read", remote |-> remote]
          [] outcome = "write" -> [err |-> "write", remote |-> remote]
          [] outcome = "close" ->
                [err |-> "nil",
                 remote |-> IF committed THEN WriteObject(objectPath, localPath)
                            ELSE remote]
          [] OTHER -> [err |-> "nil", remote |-> WriteObject(objectPath, localPath)]

\* outcome: which of ReadBytesFromFile, Write, Close fails, or "ok";
\* committed: whether a failed Close left the object written all the same
CopyFileToBucket(machineAlias, relativePath, localPath, outcome, committed) ==
    LET objectPath == UploadObjectPath(machineAlias, relativePath)
    IN  CASE outcome = "read" -> [err |-> "read", remote |-> remote]
          [] outcome = "write" -> [err |-> "write", remote |-> remote]
          [] outcome = "close" ->
                [err |-> "close",
                 remote |-> IF committed THEN WriteObject(objectPath, localPath)
                            ELSE remote]
          [] OTHER -> [err |-> "nil", remote |-> WriteObject(objectPath, localPath)]

\* faulty variant: dry-run does not stop the upload
UploadEnabled_Always == TRUE

\* if !runBackupOpts.dryRun
UploadEnabled == ~dryRun

\* ------------------------------------------------------------ Run Orchestrator
\* the remote object key of a local file, {machineAlias}/{relativePath}
ObjectKey(localPath) == MachineAlias \o Rel(HomeDir, localPath)

NoError == [stage |-> "none", cause |-> "nil", items |-> <<>>]
NoPlan == [valid |-> FALSE, dry |-> FALSE, content |-> [f \in Files |-> 0],
           remote0 |-> <<>>, required |-> {}, ignored |-> {}]

\* buckets a run may start from: empty, or holding b.txt from an earlier backup
InitialBuckets == {<<>>, [k \in {ObjectKey(FileB)} |-> 0]}

Planned ==
    \/ pc \in {"report", "upload", "done"}
    \/ pc = "failed" /\ err.stage = "upload"

InitWith(pathLists, xTypes, unreadable) ==
    /\ xType \in xTypes
    /\ unreadableDirs \in unreadable
    /\ content = [f \in Files |-> 0]
    /\ remote \in InitialBuckets
    /\ paths \in pathLists
    /\ dryRun = FALSE
    /\ pc = "idle"
    /\ localFilePaths = <<>>
    /\ checksums = <<>>
    /\ todo = {}
    /\ requiredPaths = <<>>
    /\ ignoredPaths = <<>>
    /\ idx = 1
    /\ output = <<>>
    /\ err = NoError
    /\ runs = 0
    /\ edits = 0
    /\ remote0 = remote
    /\ lookups = <<>>
    /\ uploads = <<>>
    /\ fpFailing = {}
    /\ snapshotValid = FALSE
    /\ snapshot = [f \in Files |-> 0]
    /\ prevPlan = NoPlan

\* every configured path exists and every directory is readable
Init == InitWith(SeqsUpTo(ValidSpecs, MaxSpecs), {"regular"}, {{}})

\* any configuration, over a file system with missing paths and a directory
\* that may be unreadable
InitExpand == InitWith(SeqsUpTo(PathSpecs, MaxSpecs), XTypes, SUBSET {DirSub})

env == <<xType, unreadableDirs, paths>>
hist == <<snapshotValid, snapshot, prevPlan>>

\* a local file is rewritten between two invocations (b.txt or c.txt, the
\* files the configurations of Init reach)
EditFile ==
    /\ pc = "idle"
    /\ edits < MaxEdits
    /\ \E f \in {FileB, FileC} : \E c \in Contents \ {content[f]} :
          content' = [content EXCEPT ![f] = c]
    /\ edits' = edits + 1
    /\ UNCHANGED <<env, hist, remote, dryRun, pc, localFilePaths, checksums, todo,
                   requiredPaths, ignoredPaths, idx, output, err, runs, remote0,
                   lookups, uploads, fpFailing>>

\* the command is invoked, with or without --dry-run
StartRun ==
    /\ pc = "idle"
    /\ runs < MaxRuns
    /\ dryRun' \in BOOLEAN
    /\ pc' = "connect"
    /\ runs' = runs + 1
    /\ remote0' = remote
    /\ UNCHANGED <<env, hist, content, remote, localFilePaths, checksums, todo,
                   requiredPaths, ignoredPaths, idx, output, err, edits,
                   lookups, uploads, fpFailing>>

\* storage.NewClient and googleapi.IsBucketAccessible
Connect ==
    /\ pc = "connect"
    /\ \E outcome \in {"ok", "client", "access", "denied"} :
          IF outcome = "ok"
          THEN pc' = "expand" /\ err' = err
          ELSE pc' = "failed"
               /\ err' = [stage |-> "connect", cause |-> outcome, items |-> <<>>]
    /\ UNCHANGED <<env, hist, content, remote, dryRun, localFilePaths, checksums,
                   todo, requiredPaths, ignoredPaths, idx, output, runs, edits,
                   remote0, lookups, uploads, fpFailing>>

\* localFilePaths, err := ExtractFilePathsFromList(homeDir, paths)
Expand ==
    /\ pc = "expand"
    /\ LET r == ExtractFilePathsFromList(HomeDir, paths)
       IN  /\ localFilePaths' = r.filePaths
           /\ IF Len(r.errs) > 0
              THEN pc' = "failed"
                   /\ err' = [stage |-> "expand", cause |-> "joined", items |-> r.errs]
              ELSE pc' = "fingerprint" /\ err' = err
    /\ UNCHANGED <<env, hist, content, remote, dryRun, checksums, todo,
                   requiredPaths, ignoredPaths, idx, output, runs, edits,
                   remote0, lookups, uploads, fpFailing>>

\* checksums, err := GetChecksums(localFilePaths)
Fingerprint ==
    /\ pc = "fingerprint"
    /\ \E failing \in SUBSET Range(localFilePaths) :
          LET r == GetChecksums(localFilePaths, failing)
          IN  /\ fpFailing' = failing
              /\ checksums' = r.checksums
              /\ IF Len(r.errs) > 0
                 THEN /\ pc' = "failed"
                      /\ err' = [stage |-> "fingerprint", cause |-> "joined",
                                 items |-> r.errs]
                      /\ todo' = {}
                 ELSE /\ pc' = "plan"
                      /\ err' = err
                      /\ todo' = DOMAIN r.checksums
    /\ UNCHANGED <<env, hist, content, remote, dryRun, localFilePaths,
                   requiredPaths, ignoredPaths, idx, output, runs, edits,
                   remote0, lookups, uploads>>

\* one iteration of the range loop of GetPathsRequiredBackup; the map is
\* iterated in no particular order
PlanStep ==
    /\ pc = "plan"
    /\ \E localPath \in todo : \E existOutcome, crcOutcome \in {"ok", "err"} :
          IF ~IsBelow(HomeDir, localPath)
          THEN /\ pc' = "failed"
               /\ err' = [stage |-> "plan", cause |-> "rel",
                          items |-> <<[spec |-> <<>>, path |-> localPath,
                                       cause |-> "rel"]>>]
               /\ requiredPaths' = <<>>
               /\ ignoredPaths' = <<>>
               /\ todo' = {}
               /\ lookups' = lookups
          ELSE LET objectPath == PlanObjectPath(MachineAlias, Rel(HomeDir, localPath))
                   r == IsBackupRequired(objectPath, checksums[localPath],
                                         existOutcome, crcOutcome)
                   c == Classify(r.required, localPath, requiredPaths, ignoredPaths)
               IN  /\ lookups' = lookups \o r.calls
                   /\ IF r.err # "nil"
                      THEN /\ pc' = "failed"
                           /\ err' = [stage |-> "plan", cause |-> r.err,
                                      items |-> <<[spec |-> <<>>, path |-> localPath,
                                                   cause |-> r.err]>>]
                           /\ requiredPaths' = <<>>
                           /\ ignoredPaths' = <<>>
                           /\ todo' = {}
                      ELSE /\ pc' = pc
                           /\ err' = err
                           /\ requiredPaths' = c.requiredPaths
                           /\ ignoredPaths' = c.ignoredPaths
                           /\ todo' = todo \ {localPath}
    /\ UNCHANGED <<env, hist, content, remote, dryRun, localFilePaths, checksums,
                   idx, output, runs, edits, remote0, uploads, fpFailing>>

\* the range loop ends: return requiredPaths, ignoredPaths, nil
PlanDone ==
    /\ pc = "plan"
    /\ todo = {}
    /\ pc' = "report"
    /\ UNCHANGED <<env, hist, content, remote, dryRun, localFilePaths, checksums,
                   todo, requiredPaths, ignoredPaths, idx, output, err, runs,
                   edits, remote0, lookups, uploads, fpFailing>>

\* the "Ignored path" lines, printed in dry-run only
ReportIgnored ==
    /\ pc = "report"
    /\ output' = IF Len(ignoredPaths) > 0 /\ dryRun
                 THEN output \o [i \in 1..Len(ignoredPaths) |->
                                   [kind |-> "Ignored", local |-> ignoredPaths[i],
                                    object |-> <<>>]]
                 ELSE output
    /\ pc' = "upload"
    /\ idx' = 1
    /\ UNCHANGED <<env, hist, content, remote, dryRun, localFilePaths, checksums,
                   todo, requiredPaths, ignoredPaths, err, runs, edits, remote0,
                   lookups, uploads, fpFailing>>

\* one iteration of the loop over localPathsRequiredBackup
UploadStep ==
    /\ pc = "upload"
    /\ idx <= Len(requiredPaths)
    /\ LET localPath == requiredPaths[idx]
           relativePath == Rel(HomeDir, localPath)
           object == PathJoin(MachineAlias, relativePath)
       IN  IF ~IsBelow(HomeDir, localPath)
           THEN /\ pc' = "failed"
                /\ err' = [stage |-> "upload", cause |-> "rel",
                           items |-> <<[spec |-> <<>>, path |-> localPath,
                                        cause |-> "rel"]>>]
                /\ UNCHANGED <<remote, uploads, output, idx, snapshotValid, snapshot>>
           ELSE IF UploadEnabled
           THEN \E outcome \in {"ok", "read", "write", "close"} :
                \E committed \in BOOLEAN :
                   LET r == CopyFileToBucket(MachineAlias, relativePath, localPath,
                                             outcome, committed)
                   IN  /\ remote' = r.remote
                       /\ uploads' = Append(uploads, [file |-> localPath,
                                                      outcome |-> outcome])
                       /\ snapshotValid' = FALSE
                       /\ snapshot' = [f \in Files |-> 0]
                       /\ IF r.err # "nil"
                          THEN /\ pc' = "failed"
                               /\ err' = [stage |-> "upload", cause |-> r.err,
                                          items |-> <<[spec |-> <<>>,
                                                       path |-> localPath,
                                                       cause |-> r.err]>>]
                               /\ UNCHANGED <<output, idx>>
                          ELSE /\ pc' = pc
                               /\ err' = err
                               /\ idx' = idx + 1
                               /\ output' = Append(output,
                                     [kind |-> IF dryRun THEN "WouldCopy" ELSE "Copied",
                                      local |-> localPath, object |-> object])
           ELSE /\ pc' = pc
                /\ err' = err
                /\ idx' = idx + 1
                /\ output' = Append(output,
                      [kind |-> IF dryRun THEN "WouldCopy" ELSE "Copied",
                       local |-> localPath, object |-> object])
                /\ UNCHANGED <<remote, uploads, snapshotValid, snapshot>>
    /\ UNCHANGED <<env, prevPlan, content, dryRun, localFilePaths, checksums, todo,
                   requiredPaths, ignoredPaths, runs, edits, remote0, lookups,
                   fpFailing>>

\* the loop is over: return nil
Finish ==
    /\ pc = "upload"
    /\ idx > Len(requiredPaths)
    /\ pc' = "done"
    /\ UNCHANGED <<env, hist, content, remote, dryRun, localFilePaths,
                   checksums, todo, requiredPaths, ignoredPaths, idx, output, err,
                   runs, edits, remote0, lookups, uploads, fpFailing>>

\* the process exits; nothing of the run is kept on the local side
Exit ==
    /\ pc \in {"done", "failed"}
    /\ runs < MaxRuns
    /\ pc' = "idle"
    /\ prevPlan' = IF Planned /\ dryRun
                   THEN [valid |-> TRUE, dry |-> dryRun, content |-> content,
                         remote0 |-> remote0, required |-> Range(requiredPaths),
                         ignored |-> Range(ignoredPaths)]
                   ELSE NoPlan
    /\ localFilePaths' = <<>>
    /\ checksums' = <<>>
    /\ todo' = {}
    /\ requiredPaths' = <<>>
    /\ ignoredPaths' = <<>>
    /\ idx' = 1
    /\ output' = <<>>
    /\ err' = NoError
    /\ lookups' = <<>>
    /\ uploads' = <<>>
    /\ fpFailing' = {}
    /\ remote0' = remote
    /\ dryRun' = FALSE
    /\ IF pc = "done" /\ ~dryRun
       THEN snapshotValid' = TRUE /\ snapshot' = content
       ELSE UNCHANGED <<snapshotValid, snapshot>>
    /\ UNCHANGED <<env, content, remote, runs, edits>>

Next ==
    \/ EditFile
    \/ StartRun
    \/ Connect
    \/ Expand
    \/ Fingerprint
    \/ PlanStep
    \/ PlanDone
    \/ ReportIgnored
    \/ UploadStep
    \/ Finish
    \/ Exit

Spec == Init /\ [][Next]_vars

\* the run up to the end of path expansion
NextExpand ==
    \/ StartRun
    \/ Connect
    \/ Expand

SpecExpand == InitExpand /\ [][NextExpand]_vars

\* ------------------------------------------------------------------ properties
PlanFiles == Range(localFilePaths)
LocalChecksum(f) == GenerateCRC32Checksum(content[f])

\* C1: when planning returns, required and ignored together hold exactly the
\* fingerprinted files, no file is in both, and no file is listed twice, also
\* when the expanded path list names a file more than once.
C1_Partition ==
    Planned =>
        /\ DOMAIN checksums = PlanFiles
        /\ Range(requiredPaths) \cup Range(ignoredPaths) = PlanFiles
        /\ Range(requiredPaths) \cap Range(ignoredPaths) = {}
        /\ Len(requiredPaths) + Len(ignoredPaths) = Cardinality(PlanFiles)

C1_Witness ==
    /\ Planned
    /\ paths = << <<"d", "sub">>, <<"d", "sub", "c.txt">> >>
    /\ localFilePaths = <<FileC, FileC>>
    /\ requiredPaths = <<FileC>>
    /\ ignoredPaths = <<>>

\* C2: a run that follows a complete non-dry-run backup, with the local files
\* as that backup left them, plans nothing as required, puts every file in
\* ignored and uploads nothing.
C2_Idempotent ==
    (Planned /\ snapshotValid /\ snapshot = content) =>
        /\ requiredPaths = <<>>
        /\ Range(ignoredPaths) = PlanFiles
        /\ uploads = <<>>
        /\ remote = remote0

C2_Witness ==
    /\ pc = "done"
    /\ ~dryRun
    /\ snapshotValid
    /\ snapshot = content
    /\ Cardinality(Range(ignoredPaths)) = 2
    /\ ObjectKey(FileC) \in DOMAIN remote0

\* C3: a dry run never changes the bucket, and the partition a non-dry run
\* computes equals the one the dry run before it computed from the same local
\* files and the same bucket.
C3_DryRun ==
    /\ (dryRun /\ pc # "idle") => (remote = remote0 /\ uploads = <<>>)
    /\ (/\ Planned
        /\ ~dryRun
        /\ prevPlan.valid
        /\ prevPlan.dry
        /\ prevPlan.content = content
        /\ prevPlan.remote0 = remote0)
       => (/\ Range(requiredPaths) = prevPlan.required
           /\ Range(ignoredPaths) = prevPlan.ignored)

C3_Witness ==
    /\ Planned
    /\ ~dryRun
    /\ prevPlan.valid
    /\ prevPlan.dry
    /\ prevPlan.content = content
    /\ prevPlan.remote0 = remote0
    /\ prevPlan.required # {}
    /\ prevPlan.ignored # {}

\* C4: a file is required exactly when its object {machineAlias}/{relativePath}
\* is absent or stored with another checksum, ignored exactly when it is stored
\* with the same checksum; and after a complete backup, when exactly one file
\* has changed (to content with another checksum), exactly that file is
\* required and all others are ignored.
ChangedFiles == {g \in Files : content[g] # snapshot[g]}

C4_DecisionPolicy ==
    Planned =>
        /\ \A f \in PlanFiles :
              /\ f \in Range(requiredPaths) <=>
                    \/ ObjectKey(f) \notin DOMAIN remote0
                    \/ remote0[ObjectKey(f)] # LocalChecksum(f)
              /\ f \in Range(ignoredPaths) <=>
                    /\ ObjectKey(f) \in DOMAIN remote0
                    /\ remote0[ObjectKey(f)] = LocalChecksum(f)
        /\ \A f \in PlanFiles :
              (/\ snapshotValid
               /\ ChangedFiles = {f}
               /\ LocalChecksum(f) # GenerateCRC32Checksum(snapshot[f]))
              => (/\ Range(requiredPaths) = {f}
                  /\ Range(ignoredPaths) = PlanFiles \ {f})

C4_Witness ==
    /\ Planned
    /\ snapshotValid
    /\ \E f \in PlanFiles :
          /\ ChangedFiles = {f}
          /\ LocalChecksum(f) # GenerateCRC32Checksum(snapshot[f])
          /\ requiredPaths = <<f>>
    /\ ignoredPaths # <<>>

\* ---- path expansion (SpecExpand)
Entries == {FileB, LinkL, SockS, FileC, EntryX}
Target(i) == HomeDir \o paths[i]
Missing(i) == TypeOf(Target(i)) = "absent"
\* the spec cannot be expanded: it does not exist, or it reaches a directory
\* that cannot be read
Failing(i) ==
    \/ Missing(i)
    \/ \E dir \in unreadableDirs : IsBelow(Target(i), dir)
ExpandFailed == pc = "failed" /\ err.stage = "expand"
ExpandReturned == pc = "fingerprint" \/ ExpandFailed

\* C5: the expansion holds exactly the regular files below the configured
\* paths; symbolic links, sockets, named pipes and devices never appear in it.
C5_OnlyRegularFiles ==
    pc = "fingerprint" =>
        PlanFiles = {f \in Entries : /\ TypeOf(f) = "regular"
                                     /\ \E i \in 1..Len(paths) : IsBelow(Target(i), f)}

\* C6: every spec is attempted: when some spec matches neither file nor
\* directory the expansion fails with one joined error that has one entry per
\* spec that failed and names every missing path.
C6_AggregateError ==
    ExpandReturned =>
        /\ (\E i \in 1..Len(paths) : Missing(i)) => ExpandFailed
        /\ \A i \in 1..Len(paths) : Missing(i) =>
              \E j \in 1..Len(err.items) :
                 /\ err.items[j].spec = paths[i]
                 /\ err.items[j].path = Target(i)
                 /\ err.items[j].cause = "notexist"
        /\ Len(err.items) = Cardinality({i \in 1..Len(paths) : Failing(i)})

C6_Witness ==
    /\ ExpandFailed
    /\ Len(paths) = 2
    /\ Missing(1)
    /\ Missing(2)
    /\ paths[1] # paths[2]
    /\ Len(err.items) = 2

\* C7 as stated: next to the joined error, the result still holds the files
\* of every spec that could be expanded.
C7_ValidPathsKept ==
    ExpandFailed =>
        \A i \in 1..Len(paths) : ~Failing(i) =>
            \A f \in Entries :
               (IsBelow(Target(i), f) /\ TypeOf(f) = "regular") => f \in PlanFiles

\* C7 as amended: next to the joined error the result holds no file path at
\* all; the error names the specs that failed and none that could be expanded.
C7_NoPathsWithError ==
    ExpandFailed =>
        /\ localFilePaths = <<>>
        /\ \A j \in 1..Len(err.items) :
              \E i \in 1..Len(paths) : Failing(i) /\ err.items[j].spec = paths[i]
        /\ \A i \in 1..Len(paths) : Failing(i) =>
              \E j \in 1..Len(err.items) : err.items[j].spec = paths[i]

C7_Witness ==
    /\ ExpandFailed
    /\ localFilePaths = <<>>
    /\ \E i \in 1..Len(paths) : paths[i] = <<"d", "b.txt">>
    /\ \E i \in 1..Len(paths) : Missing(i)

\* ---- fingerprinting, planning, upload
FingerprintFailed == pc = "failed" /\ err.stage = "fingerprint"
PlanFailed == pc = "failed" /\ err.stage = "plan"
UploadFailed == pc = "failed" /\ err.stage = "upload"

\* C8: if any checksum cannot be computed, the run fails with an error naming
\* every failing file, holds no checksum map, and makes no remote lookup and no
\* upload; otherwise the map has one entry per distinct path.
C8_AllOrNothing ==
    /\ fpFailing # {} => FingerprintFailed
    /\ FingerprintFailed =>
          /\ fpFailing # {}
          /\ checksums = <<>>
          /\ {err.items[j].path : j \in 1..Len(err.items)} = fpFailing
          /\ lookups = <<>>
          /\ uploads = <<>>
          /\ remote = remote0
    /\ (pc = "plan" \/ Planned \/ PlanFailed) =>
          /\ DOMAIN checksums = PlanFiles
          /\ \A f \in PlanFiles : checksums[f] = LocalChecksum(f)

C8_Witness ==
    /\ FingerprintFailed
    /\ Cardinality(PlanFiles) = 2
    /\ Cardinality(fpFailing) = 1
    /\ checksums = <<>>

\* C9: a failed remote lookup is the last lookup of the run: the run fails
\* naming that file, holds neither list and uploads nothing; and each checksum
\* lookup directly follows an existence lookup of the same object that
\* answered true.
C9_PlanFailFast ==
    /\ \A i \in 1..Len(lookups) : lookups[i].res = "err" =>
          /\ i = Len(lookups)
          /\ PlanFailed
          /\ Len(err.items) = 1
          /\ ObjectKey(err.items[1].path) = lookups[i].key
          /\ requiredPaths = <<>>
          /\ ignoredPaths = <<>>
          /\ uploads = <<>>
          /\ remote = remote0
    /\ \A i \in 1..Len(lookups) : lookups[i].op = "checksum" =>
          /\ i > 1
          /\ lookups[i - 1] = [op |-> "exists", key |-> lookups[i].key, res |-> "true"]

C9_Witness ==
    /\ PlanFailed
    /\ ~dryRun
    /\ Len(lookups) = 3
    /\ lookups[1].res = "false"
    /\ lookups[3] = [op |-> "checksum", key |-> ObjectKey(FileB), res |-> "err"]
    /\ uploads = <<>>

\* C10: a failed upload (read, write or close) is the last upload of the run:
\* the run fails citing that file, the files after it are not uploaded, the
\* objects uploaded before it stay as written, and a "Copied file" line is
\* printed for exactly the uploads that succeeded.
C10_UploadFailFast ==
    /\ \A i \in 1..Len(uploads) :
          /\ uploads[i].file = requiredPaths[i]
          /\ uploads[i].outcome # "ok" =>
                /\ i = Len(uploads)
                /\ UploadFailed
                /\ err.cause = uploads[i].outcome
                /\ err.items[1].path = uploads[i].file
          /\ uploads[i].outcome = "ok" =>
                /\ ObjectKey(uploads[i].file) \in DOMAIN remote
                /\ remote[ObjectKey(uploads[i].file)] = LocalChecksum(uploads[i].file)
    /\ UploadFailed =>
          /\ uploads # <<>>
          /\ uploads[Len(uploads)].outcome # "ok"
          /\ \A j \in (Len(uploads) + 1)..Len(requiredPaths) :
                LET k == ObjectKey(requiredPaths[j])
                IN  IF k \in DOMAIN remote0
                    THEN k \in DOMAIN remote /\ remote[k] = remote0[k]
                    ELSE k \notin DOMAIN remote
    /\ (~dryRun /\ pc \notin {"idle", "connect"}) =>
          /\ Len(output) = Cardinality({i \in 1..Len(uploads) : uploads[i].outcome = "ok"})
          /\ \A j \in 1..Len(output) :
                /\ output[j].kind = "Copied"
                /\ output[j].local = uploads[j].file
                /\ uploads[j].outcome = "ok"

C10_Witness ==
    /\ UploadFailed
    /\ Len(uploads) = 2
    /\ uploads[1].outcome = "ok"
    /\ uploads[2].outcome = "close"
    /\ Len(output) = 1

====
